---- MODULE Spec2Model ----
(***************************************************************************)
(* AlgoTradeX backtesting core: BacktestEngine.run_backtest with            *)
(* StrategyEngine.generate_signals, _simulate_trading, _calculate_metrics, *)
(* _calculate_trade_stats and the two commits that persist a run.          *)
(*                                                                         *)
(* Arithmetic.  The program computes in float64; the model computes the    *)
(* same expressions exactly.  Money is held as an integer count of         *)
(* 1/Scale currency units: every amount the simulator produces from        *)
(* integer closes, an integer capital and a cost rate k/Scale is a         *)
(* multiple of 1/Scale.  Fractions (position_size, stop_loss, indicator    *)
(* values) are pairs or records num/den compared by cross-multiplication.  *)
(* pandas NaN is the record NaN; every comparison with it is FALSE.        *)
(* The exponential averages of macd need numerators beyond 32 bits: they   *)
(* are exact fractions over arbitrary-precision integers (Big, Rat).       *)
(* Timestamps are the bar numbers 1..n (one bar per day).                  *)
(***************************************************************************)
EXTENDS Integers, Sequences, FiniteSets, TLC

VARIABLES
    closes,            \* data['close'], one value per bar
    initial_capital,   \* run_backtest argument (currency units)
    risk_params,       \* strategy.risk_params or {}
    transaction_cost,  \* self.transaction_cost, in 1/Scale
    strategy_type,     \* strategy.strategy_type of the row run_backtest loaded
                       \* ("" when the simulator is called directly)
    parameters,        \* strategy.parameters
    position,          \* signals_df['position']
    signal,            \* signals_df['signal']
    pc,                \* "start" | "loop" | "simulated" | "done" |
                       \* "backtest_saved" | "finished" | "error"
    error,             \* the exception raised ("" for none)
    idx,               \* number of bars the loop has processed
    cash,              \* in 1/Scale
    shares,
    current_position,
    trades,            \* list of trade dicts
    portfolio_values,  \* list of equity points
    buys,              \* history: number of buy fills so far
    last,              \* history: what the last processed bar did
    metrics,
    db_backtests,      \* committed Backtest rows
    db_trades,         \* committed Trade rows
    first              \* history: what the previous request returned

vars == <<closes, initial_capital, risk_params, transaction_cost, strategy_type,
          parameters, position, signal, pc, error, idx, cash, shares,
          current_position, trades, portfolio_values, buys, last, metrics,
          db_backtests, db_trades, first>>

-----------------------------------------------------------------------------
(* Bounds and input sets *)

MaxBars == 3

Prices == {94, 100, 102}

ScenarioCloses == <<100, 102, 99, 101, 105>>

\* a dip followed by a recovery
DipRecoveryCloses == <<100, 97, 102>>

\* a price that falls to 0: OHLCVData.close has no lower limit
CrashCloses == <<100, 0>>

\* BacktestRequest.initial_capital is a float without a lower limit
Capitals == {0, 100, 1000}

\* money unit: percent -> fraction (/100) times the two decimals of 0.05
Scale == 100 * 100

\* settings.TRANSACTION_COST_PERCENT = 0.05 (%), i.e. 5/Scale as a fraction
TRANSACTION_COST_PERCENT == 5

CostRates == {0, TRANSACTION_COST_PERCENT}

DefaultPositionSize == <<19, 20>>      \* 0.95
DefaultStopLoss == <<0, 1>>            \* 0.0

RiskParamsSet ==
    { {},
      { <<"position_size", <<1, 1>>>>, <<"stop_loss", <<0, 1>>>> },
      { <<"position_size", <<1, 1>>>>, <<"stop_loss", <<1, 20>>>> },
      { <<"position_size", <<3, 2>>>>, <<"stop_loss", <<-1, 20>>>> } }

DefaultShortWindow == 50
DefaultLongWindow == 200
DefaultRsiPeriod == 14
DefaultOversold == 30
DefaultOverbought == 70
DefaultMacdFast == 12
DefaultMacdSlow == 26
DefaultMacdSignal == 9

\* a flat series one bar longer than the default rsi period
ConstantCloses == [i \in 1..(DefaultRsiPeriod + 1) |-> 100]

StrategySet ==
    { [strategy_type |-> "ma_crossover",
       parameters |-> { <<"short_window", 1>>, <<"long_window", 2>> }],
      [strategy_type |-> "ma_crossover", parameters |-> {}],
      [strategy_type |-> "rsi",
       parameters |-> { <<"period", 2>>, <<"oversold", 30>>, <<"overbought", 70>> }],
      [strategy_type |-> "rsi", parameters |-> { <<"period", 1>> }],
      [strategy_type |-> "rsi", parameters |-> {}],
      [strategy_type |-> "macd", parameters |-> {}],
      [strategy_type |-> "macd",
       parameters |-> { <<"fast", 15>>, <<"slow", 30>>, <<"signal", 15>> }],
      [strategy_type |-> "combined", parameters |-> {}],
      [strategy_type |-> "combined",
       parameters |-> { <<"short_window", 1>>, <<"long_window", 2>>,
                        <<"rsi_period", 2>>, <<"rsi_overbought", 70>>,
                        <<"fast", 15>>, <<"slow", 30>>, <<"signal", 15>> }],
      [strategy_type |-> "custom", parameters |-> {}] }

-----------------------------------------------------------------------------
(* Values *)

NaN == [nan |-> TRUE, num |-> 0, den |-> 1]

Num(n) == [nan |-> FALSE, num |-> n, den |-> 1]

Frac(n, d) == [nan |-> FALSE, num |-> n, den |-> d]

\* a > b on floats: FALSE when either side is NaN; denominators are positive
Gt(a, b) == ~a.nan /\ ~b.nan /\ a.num * b.den > b.num * a.den

Lt(a, b) == Gt(b, a)

\* a == k for a float a and an integer k
EqInt(a, k) == ~a.nan /\ a.num = k * a.den

\* dict.get(key, default), the dict being a set of <<key, value>> pairs
Get(dict, key, default) ==
    IF \E p \in dict : p[1] = key
    THEN (CHOOSE p \in dict : p[1] = key)[2]
    ELSE default

\* int(a / b) for b > 0: truncation toward zero
Trunc(a, b) == IF a >= 0 THEN a \div b ELSE -((-a) \div b)

RECURSIVE SumRange(_, _, _)
SumRange(s, lo, hi) == IF lo > hi THEN 0 ELSE s[hi] + SumRange(s, lo, hi - 1)

-----------------------------------------------------------------------------
(* Exact arithmetic beyond 32 bits *)

LimbBase == 100 * 100

\* a magnitude is a sequence of limbs, least significant first, the most
\* significant one non-zero; <<>> is 0
RECURSIVE MagTrim(_)
MagTrim(a) ==
    IF a = <<>> THEN a
    ELSE IF a[Len(a)] = 0 THEN MagTrim(SubSeq(a, 1, Len(a) - 1)) ELSE a

RECURSIVE MagOfNat(_)
MagOfNat(n) ==
    IF n = 0 THEN <<>> ELSE <<n % LimbBase>> \o MagOfNat(n \div LimbBase)

Limb(a, i) == IF i <= Len(a) THEN a[i] ELSE 0

RECURSIVE MagAddFrom(_, _, _, _)
MagAddFrom(a, b, i, carry) ==
    IF i > Len(a) /\ i > Len(b)
    THEN MagOfNat(carry)
    ELSE LET t == Limb(a, i) + Limb(b, i) + carry
         IN  <<t % LimbBase>> \o MagAddFrom(a, b, i + 1, t \div LimbBase)

MagAdd(a, b) == MagAddFrom(a, b, 1, 0)

\* a - b for a >= b
RECURSIVE MagSubFrom(_, _, _, _)
MagSubFrom(a, b, i, borrow) ==
    IF i > Len(a)
    THEN <<>>
    ELSE LET t == Limb(a, i) - Limb(b, i) - borrow
         IN  IF t < 0
             THEN <<t + LimbBase>> \o MagSubFrom(a, b, i + 1, 1)
             ELSE <<t>> \o MagSubFrom(a, b, i + 1, 0)

MagSub(a, b) == MagTrim(MagSubFrom(a, b, 1, 0))

\* -1, 0, 1 as a < b, a = b, a > b
RECURSIVE MagCmpFrom(_, _, _)
MagCmpFrom(a, b, i) ==
    IF i = 0 THEN 0
    ELSE IF a[i] > b[i] THEN 1
    ELSE IF a[i] < b[i] THEN -1
    ELSE MagCmpFrom(a, b, i - 1)

MagCmp(a, b) ==
    IF Len(a) > Len(b) THEN 1
    ELSE IF Len(a) < Len(b) THEN -1
    ELSE MagCmpFrom(a, b, Len(a))

\* a * k for 0 < k < 2^31 / LimbBase
RECURSIVE MagMulFrom(_, _, _, _)
MagMulFrom(a, k, i, carry) ==
    IF i > Len(a)
    THEN MagOfNat(carry)
    ELSE LET t == a[i] * k + carry
         IN  <<t % LimbBase>> \o MagMulFrom(a, k, i + 1, t \div LimbBase)

Big(n) == [neg |-> n < 0, mag |-> MagOfNat(IF n < 0 THEN -n ELSE n)]

BigNeg(x) == IF x.mag = <<>> THEN x ELSE [neg |-> ~x.neg, mag |-> x.mag]

BigAdd(x, y) ==
    IF x.neg = y.neg
    THEN [neg |-> x.neg, mag |-> MagAdd(x.mag, y.mag)]
    ELSE LET c == MagCmp(x.mag, y.mag)
         IN  IF c = 0 THEN Big(0)
             ELSE IF c > 0 THEN [neg |-> x.neg, mag |-> MagSub(x.mag, y.mag)]
             ELSE [neg |-> y.neg, mag |-> MagSub(y.mag, x.mag)]

BigSub(x, y) == BigAdd(x, BigNeg(y))

\* x * k for a small k >= 0
BigMulSmall(x, k) ==
    IF k = 0 \/ x.mag = <<>> THEN Big(0)
    ELSE [neg |-> x.neg, mag |-> MagMulFrom(x.mag, k, 1, 0)]

BigPositive(x) == ~x.neg /\ x.mag # <<>>

\* x * f^e
RECURSIVE BigMulPow(_, _, _)
BigMulPow(x, f, e) ==
    IF e = 0 THEN x ELSE BigMulPow(BigMulSmall(x, f), f, e - 1)

\* a denominator is a product of powers of small positive factors, kept as
\* a function from the factors to their exponents
DenExp(d, f) == IF f \in DOMAIN d THEN d[f] ELSE 0

\* a common multiple of two denominators
DenJoin(a, b) ==
    [f \in DOMAIN a \cup DOMAIN b |->
        IF DenExp(a, f) > DenExp(b, f) THEN DenExp(a, f) ELSE DenExp(b, f)]

\* d * m
DenTimes(d, m) ==
    [f \in DOMAIN d \cup {m} |-> DenExp(d, f) + (IF f = m THEN 1 ELSE 0)]

\* x * (to / from) over the factors S, for a multiple `to` of `from`
RECURSIVE BigLiftOver(_, _, _, _)
BigLiftOver(x, from, to, S) ==
    IF S = {} THEN x
    ELSE LET f == CHOOSE g \in S : TRUE
         IN  BigLiftOver(BigMulPow(x, f, to[f] - DenExp(from, f)),
                         from, to, S \ {f})

BigLift(x, from, to) == BigLiftOver(x, from, to, DOMAIN to)

\* a divided by a small k > 0, from the most significant limb down:
\* quotient q and remainder r
RECURSIVE MagDivFrom(_, _, _, _, _)
MagDivFrom(a, k, i, r, q) ==
    IF i = 0 THEN [q |-> MagTrim(q), r |-> r]
    ELSE MagDivFrom(a, k, i - 1, (r * LimbBase + a[i]) % k,
                    <<(r * LimbBase + a[i]) \div k>> \o q)

\* d / f for a factor f of d
DenWithout(d, f) ==
    [g \in {h \in DOMAIN d : h # f \/ d[h] > 1} |->
        IF g = f THEN d[g] - 1 ELSE d[g]]

\* an exact fraction n / d
Rat(n) == [n |-> Big(n), d |-> [f \in {} |-> 0]]

\* p with the factor f cancelled as often as it divides the numerator
RECURSIVE RatCancel(_, _)
RatCancelStep(p, f, division) ==
    IF division.r # 0 THEN p
    ELSE RatCancel([n |-> [neg |-> p.n.neg /\ division.q # <<>>,
                           mag |-> division.q],
                    d |-> DenWithout(p.d, f)], f)

RatCancel(p, f) ==
    IF DenExp(p.d, f) = 0 THEN p
    ELSE RatCancelStep(p, f, MagDivFrom(p.n.mag, f, Len(p.n.mag), 0, <<>>))

\* p in lower terms: the same value, with every factor of S cancelled
RECURSIVE RatReduceOver(_, _)
RatReduceOver(p, S) ==
    IF S = {} THEN p
    ELSE RatReduceOver(RatCancel(p, CHOOSE f \in S : TRUE),
                       S \ {CHOOSE f \in S : TRUE})

RatReduce(p) == RatReduceOver(p, DOMAIN p.d)

RatOver(n, d) == RatReduce([n |-> n, d |-> d])

RatAddOver(p, q, d) == RatOver(BigAdd(BigLift(p.n, p.d, d), BigLift(q.n, q.d, d)), d)

RatAdd(p, q) == RatAddOver(p, q, DenJoin(p.d, q.d))

RatSubOver(p, q, d) == RatOver(BigSub(BigLift(p.n, p.d, d), BigLift(q.n, q.d, d)), d)

RatSub(p, q) == RatSubOver(p, q, DenJoin(p.d, q.d))

\* p * k / m
RatScale(p, k, m) == [n |-> BigMulSmall(p.n, k), d |-> DenTimes(p.d, m)]

\* p > q
RatGt(p, q) == BigPositive(RatSub(p, q).n)

-----------------------------------------------------------------------------
(* Indicators *)

\* Indicators.sma: data.rolling(window).mean()
sma(data, window) ==
    [i \in 1..Len(data) |->
        IF i < window THEN NaN
        ELSE Frac(SumRange(data, i - window + 1, i), window)]

\* data.diff(): NaN on the first bar
diff(data) ==
    [i \in 1..Len(data) |-> IF i = 1 THEN NaN ELSE Num(data[i] - data[i - 1])]

\* mutant: a window without any move gives rsi 0 instead of NaN
rsi_FlatIsZero(data, period) ==
    LET delta == diff(data)
        gain == [i \in 1..Len(data) |->
                    IF Gt(delta[i], Num(0)) THEN delta[i].num ELSE 0]
        loss == [i \in 1..Len(data) |->
                    IF Lt(delta[i], Num(0)) THEN -delta[i].num ELSE 0]
    IN  [i \in 1..Len(data) |->
            IF i < period THEN NaN
            ELSE LET G == SumRange(gain, i - period + 1, i)
                     L == SumRange(loss, i - period + 1, i)
                 IN  IF G + L = 0 THEN Num(0) ELSE Frac(100 * G, G + L)]

\* Indicators.rsi.  delta.where(delta > 0, 0) puts 0 wherever the test is
\* false, the NaN of the first bar included, so the rolling means are
\* defined from bar `period` on.  With G, L the window sums of gains and
\* losses: rs = G/L and rsi = 100 - 100/(1 + rs) = 100*G/(G+L); G = L = 0
\* gives 0/0 = NaN; L = 0 < G gives rs = inf and rsi = 100.
rsi(data, period) ==
    LET delta == diff(data)
        gain == [i \in 1..Len(data) |->
                    IF Gt(delta[i], Num(0)) THEN delta[i].num ELSE 0]
        loss == [i \in 1..Len(data) |->
                    IF Lt(delta[i], Num(0)) THEN -delta[i].num ELSE 0]
    IN  [i \in 1..Len(data) |->
            IF i < period THEN NaN
            ELSE LET G == SumRange(gain, i - period + 1, i)
                     L == SumRange(loss, i - period + 1, i)
                 IN  IF G + L = 0 THEN NaN ELSE Frac(100 * G, G + L)]

\* data.ewm(span=span, adjust=False).mean() at bar t: y[1] = x[1] and
\* y[t] = (1 - a) * y[t-1] + a * x[t] with a = 2 / (span + 1)
RECURSIVE ewmFrom(_, _, _)
ewmFrom(data, span, y) ==
    IF Len(y) = Len(data) THEN y
    ELSE LET t == Len(y) + 1
         IN  ewmFrom(data, span,
                     Append(y, RatAdd(RatScale(y[t - 1], span - 1, span + 1),
                                      RatScale(data[t], 2, span + 1))))

ewm(data, span) ==
    IF Len(data) = 0 THEN <<>> ELSE ewmFrom(data, span, <<data[1]>>)

\* Indicators.macd: the MACD line and the signal line
\* (the series are built bar by bar, so that each value is computed once)
RECURSIVE RatSeriesFrom(_, _)
RatSeriesFrom(data, y) ==
    IF Len(y) = Len(data) THEN y
    ELSE RatSeriesFrom(data, Append(y, Rat(data[Len(y) + 1])))

\* line 86: macd_line = ema_fast - ema_slow
RECURSIVE MacdLineFrom(_, _, _)
MacdLineFrom(ema_fast, ema_slow, y) ==
    IF Len(y) = Len(ema_fast) THEN y
    ELSE MacdLineFrom(ema_fast, ema_slow,
                      Append(y, RatSub(ema_fast[Len(y) + 1], ema_slow[Len(y) + 1])))

\* line 87: signal_line = macd_line.ewm(span=signal, adjust=False).mean()
WithSignalLine(macd_line, signal_period) ==
    [macd_line |-> macd_line, signal_line |-> ewm(macd_line, signal_period)]

macd(data, fast, slow, signal_period) ==
    WithSignalLine(MacdLineFrom(ewm(RatSeriesFrom(data, <<>>), fast),
                                ewm(RatSeriesFrom(data, <<>>), slow), <<>>),
                   signal_period)

\* df['macd'] > df['macd_signal'] as a 0/1 column
RECURSIVE MacdAboveFrom(_, _)
MacdAboveFrom(m, y) ==
    IF Len(y) = Len(m.macd_line) THEN y
    ELSE MacdAboveFrom(m,
            Append(y, IF RatGt(m.macd_line[Len(y) + 1], m.signal_line[Len(y) + 1])
                      THEN 1 ELSE 0))

MacdAbove(data, fast, slow, signal_period) ==
    MacdAboveFrom(macd(data, fast, slow, signal_period), <<>>)

-----------------------------------------------------------------------------
(* Strategy engine *)

\* mutant: the signal is the raw position, not its first difference
PositionDiff_NoDiff(pos) ==
    [i \in 1..Len(pos) |-> Num(pos[i])]

\* mutant: the first bar's signal is taken against a flat previous bar
PositionDiff_FirstFromFlat(pos) ==
    [i \in 1..Len(pos) |-> IF i = 1 THEN Num(pos[1]) ELSE Num(pos[i] - pos[i - 1])]

\* mutant: the difference looks one bar ahead (diff(-1))
PositionDiff_NextBar(pos) ==
    [i \in 1..Len(pos) |->
        IF i = Len(pos) THEN NaN ELSE Num(pos[i + 1] - pos[i])]

\* df['signal'] = df['position'].diff()
PositionDiff(pos) ==
    [i \in 1..Len(pos) |-> IF i = 1 THEN NaN ELSE Num(pos[i] - pos[i - 1])]

ma_crossover_position(data, params) ==
    LET short_window == Get(params, "short_window", DefaultShortWindow)
        long_window == Get(params, "long_window", DefaultLongWindow)
        sma_short == sma(data, short_window)
        sma_long == sma(data, long_window)
    IN  [i \in 1..Len(data) |-> IF Gt(sma_short[i], sma_long[i]) THEN 1 ELSE 0]

rsi_position(data, params) ==
    LET period == Get(params, "period", DefaultRsiPeriod)
        oversold == Get(params, "oversold", DefaultOversold)
        overbought == Get(params, "overbought", DefaultOverbought)
        r == rsi(data, period)
        p0 == [i \in 1..Len(data) |-> 0]
        p1 == [i \in 1..Len(data) |-> IF Lt(r[i], Num(oversold)) THEN 1 ELSE p0[i]]
    IN  [i \in 1..Len(data) |-> IF Gt(r[i], Num(overbought)) THEN 0 ELSE p1[i]]

macd_position(data, params) ==
    MacdAbove(data, Get(params, "fast", DefaultMacdFast),
              Get(params, "slow", DefaultMacdSlow),
              Get(params, "signal", DefaultMacdSignal))

\* _combined_strategy: Indicators.macd(df['close']) is called without the
\* fast/slow/signal parameters, so it runs on its defaults
CombinedConditions(data, params, macd_above) ==
    LET short_window == Get(params, "short_window", DefaultShortWindow)
        long_window == Get(params, "long_window", DefaultLongWindow)
        rsi_period == Get(params, "rsi_period", DefaultRsiPeriod)
        rsi_overbought == Get(params, "rsi_overbought", DefaultOverbought)
        sma_short == sma(data, short_window)
        sma_long == sma(data, long_window)
        r == rsi(data, rsi_period)
    IN  [i \in 1..Len(data) |->
            IF /\ Gt(sma_short[i], sma_long[i])
               /\ Lt(r[i], Num(rsi_overbought))
               /\ macd_above[i] = 1
            THEN 1 ELSE 0]

combined_position(data, params) ==
    CombinedConditions(data, params,
        MacdAbove(data, DefaultMacdFast, DefaultMacdSlow, DefaultMacdSignal))

\* mutant: every strategy type is dispatched
KnownStrategy_Any(st) == TRUE

\* generate_signals, lines 43-52
KnownStrategy(st) == st \in {"ma_crossover", "rsi", "macd", "combined"}

StrategyPosition(st, data, params) ==
    IF st = "ma_crossover" THEN ma_crossover_position(data, params)
    ELSE IF st = "rsi" THEN rsi_position(data, params)
    ELSE IF st = "macd" THEN macd_position(data, params)
    ELSE combined_position(data, params)

-----------------------------------------------------------------------------
(* Trade simulator *)

NoPosition ==
    [open |-> FALSE, entry_date |-> 0, entry_price |-> 0, quantity |-> 0,
     transaction_cost |-> 0]

\* (entry_price - current_price) / entry_price >= stop_loss, entry_price > 0
LossReached(entry_price, current_price, stop_loss) ==
    (entry_price - current_price) * stop_loss[2] >= stop_loss[1] * entry_price

\* lines 183-189: the stop-loss check that rewrites the bar's signal
StopLossTriggered(cp, stop_loss, current_price) ==
    /\ cp.open
    /\ stop_loss[1] > 0
    /\ LossReached(cp.entry_price, current_price, stop_loss)

\* mutant: the share count is sized on the bare close, without the cost
SharesToBuy_NoCost(c, position_size, current_price, tc) ==
    Trunc(c * position_size[1], position_size[2] * current_price * Scale)

\* mutant: the whole cash is used, whatever position_size says
SharesToBuy_IgnoreSize(c, position_size, current_price, tc) ==
    Trunc(c, current_price * (Scale + tc))

\* int(capital_to_use / cost_per_share)
SharesToBuy(c, position_size, current_price, tc) ==
    Trunc(c * position_size[1], position_size[2] * current_price * (Scale + tc))

\* mutant: a buy signal fills whether or not shares are held
CanBuy_AnyShares(sig, sh) == EqInt(sig, 1)

\* mutant: a flat simulator buys on any bar that is not a sell
CanBuy_WheneverFlat(sig, sh) == ~EqInt(sig, -1) /\ sh = 0

\* line 192: buy signal and no position
CanBuy(sig, sh) == EqInt(sig, 1) /\ sh = 0

\* mutant: a single share is never sold
CanSell_MoreThanOne(sig, sh) == EqInt(sig, -1) /\ sh > 1

\* line 211: sell signal and have position
CanSell(sig, sh) == EqInt(sig, -1) /\ sh > 0

\* mutant: the liquidation at the end is skipped
OpenAtEnd_Never(sh) == FALSE

\* line 257: a position is still open after the last bar
OpenAtEnd(sh) == sh > 0

\* mutant: the total leaves the holdings out
EquityPoint_CashOnly(t, c, sh, current_price) ==
    [time |-> t, cash |-> c, holdings |-> sh * current_price * Scale, total |-> c]

\* lines 248-254: the equity point of a bar
EquityPoint(t, c, sh, current_price) ==
    [time |-> t, cash |-> c, holdings |-> sh * current_price * Scale,
     total |-> c + sh * current_price * Scale]

\* a < b for fractions <<num, den>> with num >= 0 and den > 0, compared by
\* their continued fractions so that no product leaves 32 bits
RECURSIVE FracLess(_, _)
FracLess(a, b) ==
    LET qa == a[1] \div a[2]
        qb == b[1] \div b[2]
        ra == a[1] % a[2]
        rb == b[1] % b[2]
    IN  IF qa # qb THEN qa < qb
        ELSE IF ra = 0 THEN rb > 0
        ELSE IF rb = 0 THEN FALSE
        ELSE FracLess(<<b[2], rb>>, <<a[2], ra>>)

\* a pair with denominator 0 is the NaN of a 0/0 on numpy floats
IsNaNPair(a) == a[2] = 0

\* portfolio_df['total'].cummax() at bar t
Max(a, b) == IF a > b THEN a ELSE b

RECURSIVE CumMax(_, _)
CumMax(pv, t) ==
    IF t = 1 THEN pv[1].total ELSE Max(pv[t].total, CumMax(pv, t - 1))

\* lines 285-286: -drawdown at bar t, (cummax - total) / cummax
Depth(total, cummax) == <<cummax - total, cummax>>

DrawdownDepth(pv, t) == Depth(pv[t].total, CumMax(pv, t))

\* the deepest drawdown of the bars 1..t, NaN bars skipped as Series.min does
Deeper(m, d) ==
    IF IsNaNPair(d) THEN m
    ELSE IF IsNaNPair(m) THEN d
    ELSE IF FracLess(m, d) THEN d ELSE m

RECURSIVE DeepestDrawdown(_, _)
DeepestDrawdown(pv, t) ==
    IF t = 1 THEN DrawdownDepth(pv, 1)
    ELSE Deeper(DeepestDrawdown(pv, t - 1), DrawdownDepth(pv, t))

\* line 312: abs(portfolio_df['drawdown'].min())
MaxDrawdown(pv) == DeepestDrawdown(pv, Len(pv))

\* line 304: 1 + pct_change of the totals, bar t against bar t - 1
GrowthAt(pv, t) == <<pv[t].total, pv[t - 1].total>>

\* the bars whose return is a number (the first bar and 0/0 are NaN)
ReturnBars(pv) == {t \in 2..Len(pv) : ~IsNaNPair(GrowthAt(pv, t))}

\* mutant: the deviation counts as positive as soon as one return exists
StdPositive_AnyReturn(pv) == ReturnBars(pv) # {}

\* line 308: std_return > 0.  The sample deviation is NaN below two returns
\* and 0 when they are all equal.
StdPositive(pv) ==
    /\ Cardinality(ReturnBars(pv)) >= 2
    /\ \E s, t \in ReturnBars(pv) :
          FracLess(GrowthAt(pv, s), GrowthAt(pv, t))

\* the literal 0 of line 309
SharpeZero == [guarded |-> TRUE, totals |-> <<>>]

\* line 309: (mean_return / std_return) * sqrt(252) if std_return > 0 else 0;
\* the irrational quotient is kept as the totals it is computed from
SharpeRatio(pv) ==
    IF StdPositive(pv)
    THEN [guarded |-> FALSE, totals |-> [t \in 1..Len(pv) |-> pv[t].total]]
    ELSE SharpeZero

Abs(x) == IF x < 0 THEN -x ELSE x

\* the float 0 of a ratio
Zero == <<0, 1>>

\* line 365: len(winning_trades) / len(trades) if trades else 0
WinRate(winning, total) == IF total > 0 THEN <<winning, total>> ELSE Zero

\* mutant: the wins are averaged over all the trades
AvgWin_OverAllTrades(total_wins, winning, total) ==
    IF winning > 0 THEN <<total_wins, total>> ELSE Zero

\* line 366: total_wins / len(winning_trades) if winning_trades else 0
AvgWin(total_wins, winning, total) ==
    IF winning > 0 THEN <<total_wins, winning>> ELSE Zero

\* line 367: total_losses / len(losing_trades) if losing_trades else 0
AvgLoss(total_losses, losing) ==
    IF losing > 0 THEN <<total_losses, losing>> ELSE Zero

\* mutant: the ratio is taken without the test on total_losses
ProfitFactor_Unguarded(total_wins, total_losses) == <<total_wins, total_losses>>

\* line 368: total_wins / total_losses if total_losses > 0 else 0
ProfitFactor(total_wins, total_losses) ==
    IF total_losses > 0 THEN <<total_wins, total_losses>> ELSE Zero

\* lines 344-353 (and the zeros of lines 319-325 of _calculate_metrics)
ZeroStats ==
    [total_trades |-> 0, winning_trades |-> 0, losing_trades |-> 0,
     win_rate |-> Zero, avg_win |-> Zero, avg_loss |-> Zero,
     profit_factor |-> Zero]

\* sum(t['pnl'] for t in trades if keep(t)), keep given as a set of indices
PnlSum(trade_list, keep) ==
    SumRange([k \in 1..Len(trade_list) |->
                 IF k \in keep THEN trade_list[k].pnl ELSE 0],
             1, Len(trade_list))

\* mutant: the statistics are computed without any emptiness test
calculate_trade_stats_Unguarded(trade_list) ==
    LET winning_trades == {k \in DOMAIN trade_list : trade_list[k].pnl > 0}
        losing_trades == {k \in DOMAIN trade_list : trade_list[k].pnl < 0}
        total_wins == PnlSum(trade_list, winning_trades)
        total_losses == Abs(PnlSum(trade_list, losing_trades))
    IN  [total_trades |-> Len(trade_list),
         winning_trades |-> Cardinality(winning_trades),
         losing_trades |-> Cardinality(losing_trades),
         win_rate |-> <<Cardinality(winning_trades), Len(trade_list)>>,
         avg_win |-> <<total_wins, Cardinality(winning_trades)>>,
         avg_loss |-> <<total_losses, Cardinality(losing_trades)>>,
         profit_factor |-> <<total_wins, total_losses>>]

\* _calculate_trade_stats, lines 341-369
calculate_trade_stats(trade_list) ==
    IF trade_list = <<>> THEN ZeroStats
    ELSE LET winning_trades == {k \in DOMAIN trade_list : trade_list[k].pnl > 0}
             losing_trades == {k \in DOMAIN trade_list : trade_list[k].pnl < 0}
             total_wins == PnlSum(trade_list, winning_trades)
             total_losses == Abs(PnlSum(trade_list, losing_trades))
         IN  [total_trades |-> Len(trade_list),
              winning_trades |-> Cardinality(winning_trades),
              losing_trades |-> Cardinality(losing_trades),
              win_rate |-> WinRate(Cardinality(winning_trades), Len(trade_list)),
              avg_win |-> AvgWin(total_wins, Cardinality(winning_trades),
                                 Len(trade_list)),
              avg_loss |-> AvgLoss(total_losses, Cardinality(losing_trades)),
              profit_factor |-> ProfitFactor(total_wins, total_losses)]

\* metrics.update(trade_stats), line 89
WithStats(base, stats) ==
    [final_value |-> base.final_value, total_return |-> base.total_return,
     sharpe_ratio |-> base.sharpe_ratio, max_drawdown |-> base.max_drawdown,
     total_trades |-> stats.total_trades,
     winning_trades |-> stats.winning_trades,
     losing_trades |-> stats.losing_trades,
     win_rate |-> stats.win_rate, avg_win |-> stats.avg_win,
     avg_loss |-> stats.avg_loss, profit_factor |-> stats.profit_factor]

NoMetrics ==
    WithStats([final_value |-> 0, total_return |-> Zero,
               sharpe_ratio |-> SharpeZero, max_drawdown |-> Zero], ZeroStats)

\* no request has completed yet
NoRun == [ran |-> FALSE]

Init ==
    /\ closes \in UNION { [1..n -> Prices] : n \in 0..MaxBars }
                   \cup {ScenarioCloses, DipRecoveryCloses, ConstantCloses,
                         CrashCloses}
    /\ initial_capital \in Capitals
    /\ risk_params \in RiskParamsSet
    /\ transaction_cost \in CostRates
    /\ strategy_type = ""
    /\ parameters = {}
    /\ position = <<>>
    /\ signal = <<>>
    /\ pc = "start"
    /\ error = ""
    /\ idx = 0
    /\ cash = 0
    /\ shares = 0
    /\ current_position = NoPosition
    /\ trades = <<>>
    /\ portfolio_values = <<>>
    /\ buys = 0
    /\ last = "none"
    /\ metrics = NoMetrics
    /\ db_backtests = <<>>
    /\ db_trades = <<>>
    /\ first = NoRun

\* mutant: the engine keeps its cash balance from one run to the next
StartingCash_CarriedOver(balance, capital) == balance + capital * Scale

\* line 169: cash = initial_capital, a local of the call
StartingCash(balance, capital) == capital * Scale

\* lines 162-175: entry of _simulate_trading
EnterSimulation ==
    /\ pc' = "loop"
    /\ error' = ""
    /\ idx' = 0
    /\ cash' = StartingCash(cash, initial_capital)
    /\ shares' = 0
    /\ current_position' = NoPosition
    /\ trades' = <<>>
    /\ portfolio_values' = <<>>
    /\ buys' = 0
    /\ last' = "none"

\* an exception leaves run_backtest: nothing else changes
Raise(e) ==
    /\ pc' = "error"
    /\ error' = e
    /\ UNCHANGED <<position, signal, idx, cash, shares, current_position,
                   trades, portfolio_values, buys, last>>

\* a repeated request names the same strategy_id: the same strategy row
SameStrategy(st, run) ==
    st.strategy_type = run.strategy_type /\ st.parameters = run.parameters

\* run_backtest steps 1-5: the strategy row, the price data (lines 70-71),
\* the strategy engine (lines 74-75), then the call of the simulator
GenerateSignals ==
    /\ pc = "start"
    /\ \E st \in StrategySet :
        /\ first.ran => SameStrategy(st, first)
        /\ strategy_type' = st.strategy_type
        /\ parameters' = st.parameters
        /\ IF closes = <<>>
           THEN Raise("ValueError: No data found")
           ELSE IF KnownStrategy(st.strategy_type)
           THEN LET pos == StrategyPosition(st.strategy_type, closes, st.parameters)
                IN  /\ position' = pos
                    /\ signal' = PositionDiff(pos)
                    /\ EnterSimulation
           ELSE Raise("ValueError: Unknown strategy type")
    /\ UNCHANGED <<closes, initial_capital, risk_params, transaction_cost, metrics,
                   db_backtests, db_trades, first>>

SignalValues == {NaN, Num(-1), Num(0), Num(1)}

\* _simulate_trading called on a caller-built signals_df; as in a diff()
\* column only the first bar may be NaN
GivenSignals ==
    /\ pc = "start"
    /\ Len(closes) <= MaxBars
    /\ \E sig \in [1..Len(closes) -> SignalValues] :
        /\ \A i \in 2..Len(closes) : ~sig[i].nan
        /\ signal' = sig
        /\ EnterSimulation
    /\ UNCHANGED <<closes, initial_capital, risk_params, transaction_cost,
                   strategy_type, parameters, position, metrics, db_backtests,
                   db_trades, first>>

\* mutant: the pnl of a closed trade leaves the exit cost out
ClosedTrade_NoExitCost(cp, sh, current_price, current_time, tc, stop_loss) ==
    LET entry_value == cp.quantity * cp.entry_price * Scale
        exit_value == sh * current_price * Scale
        pnl == (exit_value - entry_value) - cp.transaction_cost
    IN  [trade_type |-> "BUY",
         entry_date |-> cp.entry_date,
         entry_price |-> cp.entry_price,
         exit_date |-> current_time,
         exit_price |-> current_price,
         quantity |-> sh,
         transaction_cost |-> cp.transaction_cost,
         pnl |-> pnl,
         pnl_percentage |-> <<pnl, entry_value>>,
         hold_period_days |-> current_time - cp.entry_date,
         exit_reason |->
            IF stop_loss[1] > 0
               /\ LossReached(cp.entry_price, current_price, stop_loss)
            THEN "stop_loss" ELSE "signal"]

\* lines 213-240: the trade dict appended by a sell fill
ClosedTrade(cp, sh, current_price, current_time, tc, stop_loss) ==
    LET total_proceeds == sh * current_price * (Scale - tc)
        exit_cost == sh * current_price * Scale - total_proceeds
        entry_value == cp.quantity * cp.entry_price * Scale
        exit_value == sh * current_price * Scale
        total_costs == cp.transaction_cost + exit_cost
        pnl == (exit_value - entry_value) - total_costs
    IN  [trade_type |-> "BUY",
         entry_date |-> cp.entry_date,
         entry_price |-> cp.entry_price,
         exit_date |-> current_time,
         exit_price |-> current_price,
         quantity |-> sh,
         transaction_cost |-> total_costs,
         pnl |-> pnl,
         pnl_percentage |-> <<pnl, entry_value>>,
         hold_period_days |-> current_time - cp.entry_date,
         exit_reason |->
            IF stop_loss[1] > 0
               /\ LossReached(cp.entry_price, current_price, stop_loss)
            THEN "stop_loss" ELSE "signal"]

\* lines 262-278: the trade dict appended by the liquidation at the end
EndOfPeriodTrade(cp, sh, final_price, final_time) ==
    LET entry_value == cp.quantity * cp.entry_price * Scale
        exit_value == sh * final_price * Scale
        pnl == (exit_value - entry_value) - cp.transaction_cost
    IN  [trade_type |-> "BUY",
         entry_date |-> cp.entry_date,
         entry_price |-> cp.entry_price,
         exit_date |-> final_time,
         exit_price |-> final_price,
         quantity |-> sh,
         transaction_cost |-> cp.transaction_cost,
         pnl |-> pnl,
         pnl_percentage |-> <<pnl, entry_value>>,
         hold_period_days |-> final_time - cp.entry_date,
         exit_reason |-> "end_of_period"]

\* mutant: the newest trade is put at the head of the list
RecordTrade_AtHead(ts, trade) == <<trade>> \o ts

\* lines 228 and 266: trades.append({...})
RecordTrade(ts, trade) == Append(ts, trade)

\* mutant: the stop-loss never rewrites the signal
EffectiveSignal_NoStop(sig, cp, stop_loss, current_price) == sig

\* The signal the bar acts on: row.get('signal', 0), rewritten to -1 by a
\* triggered stop-loss
EffectiveSignal(sig, cp, stop_loss, current_price) ==
    IF StopLossTriggered(cp, stop_loss, current_price) THEN Num(-1) ELSE sig

\* line 197: cost_per_share = current_price * (1 + self.transaction_cost)
CostPerShare(current_price, tc) == current_price * (Scale + tc)

\* line 198 with cost_per_share == 0: Python floats raise ZeroDivisionError;
\* numpy floats give inf or NaN, which int() refuses with OverflowError or
\* ValueError.  Which of them depends on the dtypes of the frame.
ZeroCostErrors ==
    {"ZeroDivisionError: float division by zero",
     "OverflowError: cannot convert float infinity to integer",
     "ValueError: cannot convert float NaN to integer"}

\* lines 177-254: one iteration of the loop over the bars; an exception of
\* line 198 leaves the loop and the call
SimulateBar ==
    /\ pc = "loop"
    /\ idx < Len(closes)
    /\ LET i == idx + 1
           current_price == closes[i]
           current_time == i
           position_size == Get(risk_params, "position_size", DefaultPositionSize)
           stop_loss == Get(risk_params, "stop_loss", DefaultStopLoss)
           sig == EffectiveSignal(signal[i], current_position, stop_loss, current_price)
           shares_to_buy == SharesToBuy(cash, position_size, current_price,
                                        transaction_cost)
           total_cost == shares_to_buy * current_price * (Scale + transaction_cost)
       IN  IF CanBuy(sig, shares) /\ CostPerShare(current_price, transaction_cost) = 0
           THEN \E e \in ZeroCostErrors : Raise(e)
           ELSE
           /\ pc' = "loop"
           /\ error' = error
           /\ idx' = i
           /\ IF CanBuy(sig, shares)
              THEN IF shares_to_buy > 0
                   THEN /\ cash' = cash - total_cost
                        /\ shares' = shares_to_buy
                        /\ current_position' =
                              [open |-> TRUE,
                               entry_date |-> current_time,
                               entry_price |-> current_price,
                               quantity |-> shares_to_buy,
                               transaction_cost |->
                                  total_cost - shares_to_buy * current_price * Scale]
                        /\ buys' = buys + 1
                        /\ last' = "buy"
                        /\ UNCHANGED trades
                   ELSE /\ last' = "no_shares"
                        /\ UNCHANGED <<cash, shares, current_position, buys, trades>>
              ELSE IF CanSell(sig, shares)
                   THEN /\ trades' = RecordTrade(trades,
                                ClosedTrade(current_position, shares, current_price,
                                            current_time, transaction_cost, stop_loss))
                        /\ cash' = cash + shares * current_price * (Scale - transaction_cost)
                        /\ shares' = 0
                        /\ current_position' = NoPosition
                        /\ last' = "sell"
                        /\ UNCHANGED buys
                   ELSE /\ last' = "hold"
                        /\ UNCHANGED <<cash, shares, current_position, buys, trades>>
           /\ portfolio_values' =
                 Append(portfolio_values,
                        EquityPoint(current_time, cash', shares', current_price))
    /\ UNCHANGED <<closes, initial_capital, risk_params, transaction_cost,
                   strategy_type, parameters, position, signal, metrics,
                   db_backtests, db_trades, first>>

\* lines 256-289: close any open position at the end, then return.  With
\* no bar at all portfolio_df has no column and line 285 raises KeyError.
CloseAtEnd ==
    /\ pc = "loop"
    /\ idx = Len(closes)
    /\ IF OpenAtEnd(shares)
       THEN LET final_price == closes[Len(closes)]
                final_time == Len(closes)
            IN  /\ trades' = RecordTrade(trades,
                        EndOfPeriodTrade(current_position, shares, final_price,
                                         final_time))
                /\ cash' = cash + shares * final_price * (Scale - transaction_cost)
                /\ last' = "end_of_period"
       ELSE /\ last' = "flat_at_end"
            /\ UNCHANGED <<trades, cash>>
    /\ IF portfolio_values = <<>>
       THEN pc' = "error" /\ error' = "KeyError: 'total'"
       ELSE pc' = "simulated" /\ error' = error
    /\ UNCHANGED <<closes, initial_capital, risk_params, transaction_cost,
                   strategy_type, parameters, position, signal, idx, shares,
                   current_position, portfolio_values, buys, metrics,
                   db_backtests, db_trades, first>>

\* steps 6 and 6b: _calculate_metrics (lines 300-318; dividing
\* a numpy float by 0.0 gives NaN or inf, here a pair with denominator 0),
\* then _calculate_trade_stats merged into the metrics (lines 88-89)
CalculateMetrics ==
    /\ pc = "simulated"
    /\ LET final_value == portfolio_values[Len(portfolio_values)].total
           base == [final_value |-> final_value,
                    total_return |-> <<final_value - initial_capital * Scale,
                                       initial_capital * Scale>>,
                    sharpe_ratio |-> SharpeRatio(portfolio_values),
                    max_drawdown |-> MaxDrawdown(portfolio_values)]
       IN  metrics' = WithStats(base, calculate_trade_stats(trades))
    /\ pc' = "done"
    /\ UNCHANGED <<closes, initial_capital, risk_params, transaction_cost,
                   strategy_type, parameters, position, signal, error, idx, cash,
                   shares, current_position, trades, portfolio_values, buys, last,
                   db_backtests, db_trades, first>>

\* step 8, lines 96-124: the Backtest row is added and committed
SaveBacktest ==
    /\ pc = "done"
    /\ strategy_type # ""
    /\ db_backtests' =
          Append(db_backtests,
                 [initial_capital |-> initial_capital,
                  final_capital |-> portfolio_values[Len(portfolio_values)].total,
                  total_return |-> metrics.total_return,
                  total_trades |-> metrics.total_trades])
    /\ pc' = "backtest_saved"
    /\ UNCHANGED <<closes, initial_capital, risk_params, transaction_cost,
                   strategy_type, parameters, position, signal, error, idx, cash,
                   shares, current_position, trades, portfolio_values, buys, last,
                   metrics, db_trades, first>>

\* line 135: what self.db.commit() raises when the database refuses
DatabaseError == "SQLAlchemyError"

\* lines 127-133: Trade(backtest_id=backtest.id, ..., **trade_data) for
\* every trade of the run; backtest.id is the row's place in the table
TradeRows(trade_list, backtest_id) ==
    [k \in 1..Len(trade_list) |->
        [backtest_id |-> backtest_id, trade |-> trade_list[k]]]

\* step 9, lines 126-143: the Trade rows are added and committed in a
\* second transaction, then the result is returned.  The database may
\* refuse the transaction: the exception leaves run_backtest, the API
\* handler turns it into a response (api/backtest.py lines 70-73), and the
\* session is closed with the rows uncommitted.
SaveTrades ==
    /\ pc = "backtest_saved"
    /\ \/ /\ db_trades' = db_trades \o TradeRows(trades, Len(db_backtests))
          /\ pc' = "finished"
          /\ error' = error
       \/ /\ pc' = "error"
          /\ error' = DatabaseError
          /\ db_trades' = db_trades
    /\ UNCHANGED <<closes, initial_capital, risk_params, transaction_cost,
                   strategy_type, parameters, position, signal, idx, cash,
                   shares, current_position, trades, portfolio_values, buys, last,
                   metrics, db_backtests, first>>

Next ==
    \/ GenerateSignals
    \/ GivenSignals
    \/ SimulateBar
    \/ CloseAtEnd
    \/ CalculateMetrics
    \/ SaveBacktest
    \/ SaveTrades

Spec == Init /\ [][Next]_vars

\* The same request sent again once the first has returned, for the same
\* window or for a window that ends earlier (the same bars up to bar k);
\* a new BacktestEngine, the same database.  Whatever the first run left
\* behind stays where it is.
RunAgain ==
    /\ pc = "finished"
    /\ ~first.ran
    /\ first' = [ran |-> TRUE,
                 closes |-> closes,
                 strategy_type |-> strategy_type,
                 parameters |-> parameters,
                 signal |-> signal,
                 portfolio_values |-> portfolio_values,
                 trades |-> trades,
                 metrics |-> metrics]
    /\ \E k \in 1..Len(closes) : closes' = SubSeq(closes, 1, k)
    /\ pc' = "start"
    /\ UNCHANGED <<initial_capital, risk_params, transaction_cost, strategy_type,
                   parameters, position, signal, error, idx, cash, shares,
                   current_position, trades, portfolio_values, buys, last,
                   metrics, db_backtests, db_trades>>

\* run_backtest called through the API, possibly twice
NextTwice ==
    \/ GenerateSignals
    \/ SimulateBar
    \/ CloseAtEnd
    \/ CalculateMetrics
    \/ SaveBacktest
    \/ SaveTrades
    \/ RunAgain

SpecTwice == Init /\ [][NextTwice]_vars

-----------------------------------------------------------------------------
(* Properties *)

Returned == pc \in {"simulated", "done", "backtest_saved", "finished"}

InLoop == pc = "loop"

BarPending == pc = "loop" /\ idx < Len(closes)

RunStopLoss == Get(risk_params, "stop_loss", DefaultStopLoss)

RunPositionSize == Get(risk_params, "position_size", DefaultPositionSize)

LastTrade == trades[Len(trades)]

\* C1 (as claimed): when _simulate_trading returns, the share count is 0 and
\* no open position remains, also after a forced liquidation.
C1_Closure == Returned => (shares = 0 /\ ~current_position.open)

\* C2 (as claimed): every emitted trade record has entry_date strictly
\* before exit_date, whatever its exit_reason.
C2_EntryBeforeExit ==
    \A k \in DOMAIN trades : trades[k].entry_date < trades[k].exit_date

SinglePosition == current_position.open <=> shares > 0

BuyOnlyOnSignalWhileFlat ==
    [][(BarPending /\ buys' = buys + 1) =>
          (EqInt(signal[idx + 1], 1) /\ shares = 0 /\ ~current_position.open)]_vars

SimulatorStateUnchanged ==
    /\ cash' = cash
    /\ shares' = shares
    /\ current_position' = current_position

\* C3 (as claimed): current_position is set exactly when shares > 0, a buy
\* fill happens only on a +1 bar while flat, and every +1 signal that arrives
\* while LONG leaves cash, shares and the open position unchanged.
C3_Original ==
    /\ []SinglePosition
    /\ BuyOnlyOnSignalWhileFlat
    /\ [][(BarPending /\ shares > 0 /\ EqInt(signal[idx + 1], 1)) =>
             SimulatorStateUnchanged]_vars

\* C3 (amended): current_position is set exactly when shares > 0, a buy fill
\* happens only on a +1 bar while flat, and a +1 signal that arrives while
\* LONG never adds shares: it leaves cash, shares and the open position
\* unchanged unless the stop-loss triggers on that bar, which closes the
\* position.
C3_SinglePosition ==
    /\ []SinglePosition
    /\ BuyOnlyOnSignalWhileFlat
    /\ [][(BarPending /\ shares > 0 /\ EqInt(signal[idx + 1], 1)) =>
             IF StopLossTriggered(current_position, RunStopLoss, closes[idx + 1])
             THEN shares' = 0 /\ ~current_position'.open /\ buys' = buys
             ELSE SimulatorStateUnchanged /\ buys' = buys]_vars

\* a +1 signal arrived on a bar the simulator entered LONG, and was ignored
C3_Witness ==
    /\ InLoop /\ idx > 1
    /\ EqInt(signal[idx], 1)
    /\ last = "hold"
    /\ shares > 0
    /\ current_position.entry_date < idx

\* C4: with capital > 0, position_size in (0,1], cost rate >= 0 and positive
\* closes, cash >= 0 and shares >= 0 after every bar, in the simulator's
\* state and in every recorded equity point.
C4_NoNegativeState ==
    (/\ initial_capital > 0
     /\ RunPositionSize[1] > 0
     /\ RunPositionSize[1] <= RunPositionSize[2]) =>
        /\ cash >= 0
        /\ shares >= 0
        /\ \A k \in DOMAIN portfolio_values :
              portfolio_values[k].cash >= 0 /\ portfolio_values[k].holdings >= 0

\* a buy with position_size 1.0 and a positive cost rate that left less
\* cash than one more share costs
C4_Witness ==
    /\ InLoop /\ last = "buy"
    /\ transaction_cost > 0
    /\ RunPositionSize = <<1, 1>>
    /\ cash < closes[idx] * Scale

\* C5: the equity point appended for bar i has holdings = shares * close[i]
\* and total = cash + holdings, cash and shares being the simulator's values
\* after bar i's stop-loss check and fill.
C5_EquityConsistency ==
    (InLoop /\ idx > 0) =>
        /\ Len(portfolio_values) = idx
        /\ portfolio_values[idx].time = idx
        /\ portfolio_values[idx].cash = cash
        /\ portfolio_values[idx].holdings = shares * closes[idx] * Scale
        /\ portfolio_values[idx].total = cash + shares * closes[idx] * Scale

\* the equity point of a bar that bought, and the one of a bar that sold
C5_Witness ==
    /\ InLoop /\ idx > 1
    /\ last = "sell"
    /\ portfolio_values[idx - 1].holdings > 0
    /\ portfolio_values[idx].holdings = 0

\* C6 (as claimed): for every trade record, end_of_period included, the
\* equity point of its exit bar is post-fill (no holdings left), and the last
\* equity point's total is the cash the run ends with.
C6_EquityReflectsTrades ==
    Returned =>
        /\ \A k \in DOMAIN trades :
              portfolio_values[trades[k].exit_date].holdings = 0
        /\ portfolio_values[Len(portfolio_values)].total = cash

\* C7: every buy fill is followed by exactly one trade record by the end of
\* the run: during the loop the records plus the open position count the
\* buys, and the returned list has as many records as there were buys.
C7_EveryBuyRecorded ==
    /\ InLoop => Len(trades) + (IF shares > 0 THEN 1 ELSE 0) = buys
    /\ Returned => Len(trades) = buys

\* a run with two buys, the second closed by the liquidation at the end
C7_Witness ==
    /\ pc = "done"
    /\ buys = 2
    /\ LastTrade.exit_reason = "end_of_period"
    /\ trades[1].exit_reason # "end_of_period"

\* C8: on every bar where the simulator is LONG, stop_loss > 0 and the loss
\* from the entry price reaches stop_loss, the position is closed on that
\* bar with exit_reason stop_loss, whatever the bar's signal, and no buy
\* happens on that bar.
C8_StopLossPreempts ==
    [][(/\ BarPending
        /\ shares > 0
        /\ RunStopLoss[1] > 0
        /\ LossReached(current_position.entry_price, closes[idx + 1], RunStopLoss))
       => (/\ shares' = 0
           /\ ~current_position'.open
           /\ buys' = buys
           /\ Len(trades') = Len(trades) + 1
           /\ trades'[Len(trades')].exit_reason = "stop_loss"
           /\ trades'[Len(trades')].exit_date = idx + 1
           /\ trades'[Len(trades')].entry_date = current_position.entry_date)]_vars

\* a stop-loss exit on a bar whose own signal was +1
C8_Witness ==
    /\ InLoop /\ idx > 1
    /\ last = "sell"
    /\ LastTrade.exit_reason = "stop_loss"
    /\ LastTrade.exit_date = idx
    /\ EqInt(signal[idx], 1)

Scenario ==
    /\ pc = "done"
    /\ closes = ScenarioCloses
    /\ strategy_type = "ma_crossover"
    /\ parameters = { <<"short_window", 1>>, <<"long_window", 2>> }
    /\ initial_capital = 1000
    /\ RunPositionSize = <<1, 1>>
    /\ RunStopLoss[1] = 0
    /\ transaction_cost = 0

\* C9 (as claimed): the scenario makes exactly one buy, closes it by forced
\* liquidation at bar 5 and ends with final_total 1050 (total_return 0.05).
C9_Original ==
    Scenario =>
        /\ buys = 1
        /\ Len(trades) = 1
        /\ trades[1].exit_reason = "end_of_period"
        /\ trades[1].exit_date = 5
        /\ metrics.final_value = 1050 * Scale
        /\ metrics.total_return[1] * 100 = 5 * metrics.total_return[2]

\* C9 (amended): the scenario makes exactly two buys (bar 2 at 102, bar 4 at
\* 101), closes the first by the sell signal of bar 3 and the second by
\* forced liquidation at bar 5 with exit_reason end_of_period, and ends with
\* final_total 1009 (total_return 0.009).
C9_Scenario ==
    Scenario =>
        /\ signal = <<NaN, Num(1), Num(-1), Num(1), Num(0)>>
        /\ buys = 2
        /\ Len(trades) = 2
        /\ trades[1].entry_date = 2 /\ trades[1].entry_price = 102
        /\ trades[1].exit_date = 3 /\ trades[1].exit_reason = "signal"
        /\ trades[2].entry_date = 4 /\ trades[2].entry_price = 101
        /\ trades[2].exit_date = 5 /\ trades[2].exit_reason = "end_of_period"
        /\ metrics.final_value = 1009 * Scale
        /\ metrics.total_return[1] * 1000 = 9 * metrics.total_return[2]

C9_Witness == Scenario /\ last = "end_of_period"

RsiBetween(r, oversold, overbought) ==
    ~r.nan /\ ~Lt(r, Num(oversold)) /\ ~Gt(r, Num(overbought))

\* C10 (as claimed): in the rsi strategy position[i] = 1 when rsi[i] <
\* oversold, 0 when rsi[i] > overbought, and position[i] = position[i-1]
\* on every bar with oversold <= rsi[i] <= overbought.
C10_RsiHysteresis ==
    (strategy_type = "rsi" /\ pc # "start") =>
        LET oversold == Get(parameters, "oversold", DefaultOversold)
            overbought == Get(parameters, "overbought", DefaultOverbought)
            r == rsi(closes, Get(parameters, "period", DefaultRsiPeriod))
        IN  \A i \in 1..Len(closes) :
               /\ Lt(r[i], Num(oversold)) => position[i] = 1
               /\ Gt(r[i], Num(overbought)) => position[i] = 0
               /\ (i > 1 /\ RsiBetween(r[i], oversold, overbought)) =>
                      position[i] = position[i - 1]

Generated == KnownStrategy(strategy_type) /\ pc \notin {"start", "error"}

\* C11: for each of the four strategies position[i] is 0 or 1 at every bar,
\* signal[i] = position[i] - position[i-1] after the first bar, the first
\* bar's signal is undefined (NaN), and the first bar fills nothing: its
\* equity point holds the whole initial capital in cash.
C11_SignalSeries ==
    Generated =>
        /\ Len(position) = Len(closes) /\ Len(signal) = Len(closes)
        /\ \A i \in DOMAIN position : position[i] \in {0, 1}
        /\ \A i \in DOMAIN signal :
              IF i = 1 THEN signal[i].nan
              ELSE /\ signal[i] = Num(position[i] - position[i - 1])
                   /\ signal[i].num \in {-1, 0, 1}
        /\ portfolio_values # <<>> =>
              /\ portfolio_values[1].cash = initial_capital * Scale
              /\ portfolio_values[1].holdings = 0

\* a macd run whose position went long and flat again
C11_Witness ==
    /\ Generated /\ pc = "done"
    /\ strategy_type = "macd"
    /\ \E i \in DOMAIN signal : EqInt(signal[i], 1)
    /\ \E i \in DOMAIN signal : EqInt(signal[i], -1)

\* C12 (as claimed): every bar where the combined strategy is long is a bar
\* where ma_crossover and macd are long under the same parameter mapping
\* (fast/slow/signal included) and where rsi < rsi_overbought.
C12_CombinedStrictest ==
    (strategy_type = "combined" /\ pc \notin {"start", "error"}) =>
        LET r == rsi(closes, Get(parameters, "rsi_period", DefaultRsiPeriod))
            ma == ma_crossover_position(closes, parameters)
            mc == macd_position(closes, parameters)
        IN  \A i \in DOMAIN position :
               position[i] = 1 =>
                  /\ ma[i] = 1
                  /\ mc[i] = 1
                  /\ Lt(r[i], Num(Get(parameters, "rsi_overbought",
                                      DefaultOverbought)))

\* run_backtest was called (the simulator was not called directly)
ViaRunBacktest == strategy_type # ""

NothingSimulated ==
    /\ idx = 0
    /\ portfolio_values = <<>>
    /\ trades = <<>>
    /\ pc \in {"start", "error"}

NothingPersisted == db_backtests = <<>> /\ db_trades = <<>>

\* C13 (as claimed): a run_backtest call with initial capital <= 0 is
\* rejected before simulation: no bar is simulated, no metrics are computed
\* and no Backtest or Trade row is persisted.
C13_InvalidCapitalRejected ==
    (ViaRunBacktest /\ initial_capital <= 0) =>
        /\ NothingSimulated
        /\ metrics = NoMetrics
        /\ NothingPersisted

SupportedTypes == {"ma_crossover", "rsi", "macd", "combined"}

ConfigurationError ==
    ViaRunBacktest /\ (strategy_type \notin SupportedTypes \/ closes = <<>>)

OutOfRangeRisk ==
    \/ RunStopLoss[1] < 0
    \/ RunStopLoss[1] >= RunStopLoss[2]
    \/ RunPositionSize[1] <= 0
    \/ RunPositionSize[1] > RunPositionSize[2]

\* C15 (as claimed): a run whose risk_params are out of range (stop_loss < 0
\* or >= 1, position_size outside (0,1]) ends in an error before any bar is
\* simulated.
C15_OutOfRangeRiskRejected ==
    (OutOfRangeRisk /\ pc # "start" /\ closes # <<>>) =>
        (pc = "error" /\ NothingSimulated)

\* cash before the bar t was processed
CashBefore(t) ==
    IF t = 1 THEN initial_capital * Scale ELSE portfolio_values[t - 1].cash

\* C16: for every trade closed by a signal or a stop-loss exit, with
\* entry_cost and exit_cost the cost rate times the entry and exit values:
\* pnl = (exit_value - entry_value) - (entry_cost + exit_cost),
\* pnl_percentage = pnl / entry_value, transaction_cost = entry_cost +
\* exit_cost, cash grows at the exit bar by shares * exit_close * (1 - rate),
\* and pnl is the net cash change of the buy/sell round trip.
C16_ClosedTradePnl ==
    \A k \in DOMAIN trades :
        trades[k].exit_reason \in {"signal", "stop_loss"} =>
            LET t == trades[k]
                entry_value == t.quantity * t.entry_price * Scale
                exit_value == t.quantity * t.exit_price * Scale
                entry_cost == t.quantity * t.entry_price * transaction_cost
                exit_cost == t.quantity * t.exit_price * transaction_cost
            IN  /\ t.pnl = (exit_value - entry_value) - (entry_cost + exit_cost)
                /\ t.pnl_percentage = <<t.pnl, entry_value>>
                /\ t.transaction_cost = entry_cost + exit_cost
                /\ t.entry_date < t.exit_date
                /\ portfolio_values[t.exit_date].cash - CashBefore(t.exit_date)
                      = t.quantity * t.exit_price * (Scale - transaction_cost)
                /\ t.pnl = portfolio_values[t.exit_date].cash
                              - CashBefore(t.entry_date)

\* a stop-loss exit at a loss, with costs paid at both ends
C16_Witness ==
    /\ transaction_cost > 0
    /\ Len(trades) = 1
    /\ trades[1].exit_reason = "stop_loss"
    /\ trades[1].pnl < 0
    /\ trades[1].quantity > 1

\* C17: on a +1 signal while flat the simulator buys
\* n = floor(cash * position_size / (close * (1 + rate))) shares and cash
\* falls by exactly n * close * (1 + rate); with n = 0 the bar changes
\* neither cash nor shares nor the (absent) open position and raises nothing.
\* Stated for a close above 0, where the quotient is defined (C29 is about
\* a close of 0).
C17_PositionSizing ==
    [][(BarPending /\ shares = 0 /\ EqInt(signal[idx + 1], 1)
        /\ closes[idx + 1] > 0) =>
          LET close == closes[idx + 1]
              n == (cash * RunPositionSize[1])
                      \div (RunPositionSize[2] * close * (Scale + transaction_cost))
          IN  /\ n >= 0
              /\ n > 0 =>
                    /\ shares' = n
                    /\ cash' = cash - n * close * (Scale + transaction_cost)
                    /\ current_position'.open
                    /\ current_position'.quantity = n
              /\ n = 0 =>
                    /\ SimulatorStateUnchanged
                    /\ ~current_position'.open
              /\ pc' = "loop" /\ error' = ""]_vars

\* a buy signal with cash left that could not pay for one share
C17_Witness ==
    /\ InLoop /\ idx >= 1
    /\ last = "no_shares"
    /\ cash > 0
    /\ EqInt(signal[idx], 1)

MetricsReady == pc \in {"done", "backtest_saved", "finished"}

Winners == {k \in DOMAIN trades : trades[k].pnl > 0}

Losers == {k \in DOMAIN trades : trades[k].pnl < 0}

\* C18 (as claimed): avg_loss is the mean of the negative pnl values, hence
\* <= 0 whenever a losing trade exists, and avg_win is the mean of the
\* positive pnl values.
C18_Original ==
    MetricsReady =>
        /\ Losers # {} =>
              /\ metrics.avg_loss[2] > 0
              /\ metrics.avg_loss[1] * Cardinality(Losers)
                    = PnlSum(trades, Losers) * metrics.avg_loss[2]
              /\ metrics.avg_loss[1] <= 0
        /\ Winners # {} =>
              metrics.avg_win = <<PnlSum(trades, Winners), Cardinality(Winners)>>

\* C18 (amended): avg_loss is the absolute value of the mean of the negative
\* pnl values, hence > 0 whenever a losing trade exists, and avg_win is the
\* mean of the positive pnl values.
C18_AvgLossMagnitude ==
    MetricsReady =>
        /\ Losers # {} =>
              /\ metrics.avg_loss = <<-PnlSum(trades, Losers), Cardinality(Losers)>>
              /\ metrics.avg_loss[1] > 0
        /\ Winners # {} =>
              metrics.avg_win = <<PnlSum(trades, Winners), Cardinality(Winners)>>

\* a run with a winning and a losing trade
C18_Witness == MetricsReady /\ Winners # {} /\ Losers # {}

\* C19: with an empty trade list every trade-derived metric of the run is
\* exactly 0 and no error was raised.
C19_EmptyTradeList ==
    (MetricsReady /\ trades = <<>>) =>
        /\ metrics.total_trades = 0
        /\ metrics.winning_trades = 0
        /\ metrics.losing_trades = 0
        /\ metrics.win_rate = Zero
        /\ metrics.avg_win = Zero
        /\ metrics.avg_loss = Zero
        /\ metrics.profit_factor = Zero
        /\ error = ""

\* a persisted run that saw a sell signal but never traded
C19_Witness ==
    /\ pc = "finished"
    /\ trades = <<>>
    /\ initial_capital > 0
    /\ \E i \in DOMAIN signal : EqInt(signal[i], -1)

\* C20: profit_factor = (sum of positive pnl) / |sum of negative pnl| when
\* some trade has negative pnl, and 0 for every trade list without a losing
\* trade, the all-winners lists included.
C20_ProfitFactor ==
    MetricsReady =>
        IF Losers # {}
        THEN /\ metrics.profit_factor =
                   <<PnlSum(trades, Winners), Abs(PnlSum(trades, Losers))>>
             /\ metrics.profit_factor[2] > 0
        ELSE metrics.profit_factor = Zero

\* a run whose trades are all winners
C20_Witness ==
    /\ MetricsReady
    /\ trades # <<>>
    /\ Winners = DOMAIN trades
    /\ transaction_cost > 0

Constant(s) == s # <<>> /\ \A i \in DOMAIN s : s[i] = s[1]

\* C21: on a constant-price series with a positive capital, under each of
\* the four strategies and every risk_params, no fill happens, every equity
\* point's total is the initial capital, and the metrics have sharpe_ratio
\* 0 (the guard of line 309, not NaN) and max_drawdown 0.
C21_ConstantSeries ==
    (Generated /\ Constant(closes) /\ initial_capital > 0) =>
        /\ buys = 0 /\ trades = <<>> /\ shares = 0
        /\ \A k \in DOMAIN portfolio_values :
              portfolio_values[k].total = initial_capital * Scale
        /\ MetricsReady =>
              /\ metrics.sharpe_ratio = SharpeZero
              /\ metrics.max_drawdown[1] = 0
              /\ metrics.max_drawdown[2] > 0
              /\ error = ""

\* a persisted macd run on a flat series of several bars
C21_Witness ==
    /\ pc = "finished"
    /\ strategy_type = "macd"
    /\ Constant(closes) /\ Len(closes) = MaxBars
    /\ initial_capital > 0
    /\ RunStopLoss[1] > 0

\* C22: on a constant-price series the rsi strategy with period 14 has an
\* undefined rsi on every bar, raises nothing (a run fails only if the
\* database refuses its rows), and its position is 0 on every bar, so no
\* signal is +1 or -1.
C22_RsiConstantSeries ==
    (/\ strategy_type = "rsi"
     /\ Get(parameters, "period", DefaultRsiPeriod) = 14
     /\ Constant(closes)
     /\ pc # "start") =>
        /\ pc = "error" => error = DatabaseError
        /\ \A i \in DOMAIN closes : rsi(closes, 14)[i].nan
        /\ Len(position) = Len(closes)
        /\ \A i \in DOMAIN position : position[i] = 0
        /\ \A i \in DOMAIN signal : ~EqInt(signal[i], 1) /\ ~EqInt(signal[i], -1)

\* the flat series reaches past the rsi warm-up
C22_Witness ==
    /\ pc = "finished"
    /\ strategy_type = "rsi"
    /\ Get(parameters, "period", DefaultRsiPeriod) = 14
    /\ closes = ConstantCloses
    /\ Len(closes) > 14

-----------------------------------------------------------------------------
(* Two runs: SpecTwice *)

SecondRun == first.ran /\ pc \notin {"start", "error"}

\* the trades of a list that a signal or the stop-loss closed on bars 1..k
ClosedBy(ts, k) ==
    SelectSeq(ts, LAMBDA t : t.exit_reason \in {"signal", "stop_loss"}
                             /\ t.exit_date <= k)

\* C23: no look-ahead.  The second run reads the first k bars of the series
\* the first run read, with the same strategy, capital and risk parameters
\* (two series that agree on k bars both agree with that common prefix).
\* Its signals, its equity points, its cash and shares after each bar and
\* the trades closed by a signal or the stop-loss are those of the first run
\* on bars 1..k, and the equity point of a bar is recorded before the next
\* bar is read.
C23_NoLookAhead ==
    SecondRun =>
        /\ Len(signal) = Len(closes)
        /\ \A i \in DOMAIN signal : signal[i] = first.signal[i]
        /\ Len(portfolio_values) = idx
        /\ \A i \in DOMAIN portfolio_values :
              portfolio_values[i] = first.portfolio_values[i]
        /\ (pc = "loop" /\ idx > 0) =>
              /\ cash = first.portfolio_values[idx].cash
              /\ shares * closes[idx] * Scale = first.portfolio_values[idx].holdings
        /\ ClosedBy(trades, idx) = ClosedBy(first.trades, idx)

\* the second run has read a strictly shorter window of a run that traded
\* after it, and has closed a trade itself
C23_Witness ==
    /\ SecondRun
    /\ pc = "finished"
    /\ Len(closes) < Len(first.closes)
    /\ ClosedBy(trades, idx) # <<>>
    /\ Len(first.trades) > Len(ClosedBy(trades, idx))

\* C24: idempotence.  The same request twice returns the same trades and
\* the same metrics, and the input series is the one the first run was given.
C24_Idempotent ==
    (SecondRun /\ closes = first.closes /\ MetricsReady) =>
        /\ trades = first.trades
        /\ metrics = first.metrics
        /\ signal = first.signal
        /\ portfolio_values = first.portfolio_values

C24_Witness ==
    /\ SecondRun
    /\ pc = "finished"
    /\ closes = first.closes
    /\ Len(trades) > 1
    /\ transaction_cost > 0

-----------------------------------------------------------------------------
(* Order of the trade list *)

\* C25: the trade list is in close order and its trades do not overlap:
\* a trade is closed no later than the next one is opened and no later than
\* the next one is closed, and only the last record can be an end_of_period
\* record.
C25_CloseOrder ==
    \A k \in 1..(Len(trades) - 1) :
        /\ trades[k].exit_date <= trades[k + 1].entry_date
        /\ trades[k].exit_date <= trades[k + 1].exit_date
        /\ trades[k].exit_reason # "end_of_period"

\* a returned list of a trade closed by a signal and then the record of the
\* liquidation at the end
C25_Witness ==
    /\ Returned
    /\ Len(trades) = 2
    /\ trades[1].exit_reason = "signal"
    /\ trades[2].exit_reason = "end_of_period"

-----------------------------------------------------------------------------
(* Money conservation *)

\* C26: over a whole run the initial capital plus the pnl of every trade
\* record, the end_of_period record included, is the cash held once the
\* run has liquidated.
C26_MoneyConserved ==
    Returned =>
        initial_capital * Scale + PnlSum(trades, DOMAIN trades) = cash

-----------------------------------------------------------------------------
(* The simulator follows the strategy's position *)

\* C27: with signals from generate_signals, after every bar a simulator
\* that holds shares implies a strategy position of 1 on that bar; so a
\* bar about to be read never carries +1 while shares are held, and after
\* a bar whose signal was -1 no shares are held.
C27_LongFollowsPosition ==
    /\ (Generated /\ pc = "loop" /\ idx > 0) =>
          /\ shares > 0 => position[idx] = 1
          /\ EqInt(signal[idx], -1) => shares = 0
    /\ (Generated /\ BarPending /\ shares > 0) => ~EqInt(signal[idx + 1], 1)

\* a -1 from the strategy has just closed the position a +1 opened
C27_Witness ==
    /\ Generated
    /\ pc = "loop"
    /\ idx > 1
    /\ EqInt(signal[idx], -1)
    /\ last = "sell"
    /\ LastTrade.exit_reason = "signal"
    /\ position[LastTrade.entry_date] = 1

-----------------------------------------------------------------------------
(* Flat until the next buy signal *)

\* C28: a flat simulator stays flat over every bar whose signal is not +1,
\* whatever made it flat (a stop-loss exit, a buy that afforded no share):
\* such a bar, a -1 included, changes neither cash nor shares and records
\* no trade.
C28_FlatUntilBuySignal ==
    [][(BarPending /\ shares = 0 /\ ~EqInt(signal[idx + 1], 1)) =>
          /\ shares' = 0
          /\ cash' = cash
          /\ trades' = trades
          /\ current_position' = current_position]_vars

\* the stop-loss closed the position on an earlier bar and a -1 has since
\* arrived while flat
C28_Witness ==
    /\ pc = "loop"
    /\ trades # <<>>
    /\ LastTrade.exit_reason = "stop_loss"
    /\ LastTrade.exit_date < idx
    /\ EqInt(signal[idx], -1)
    /\ last = "hold"
    /\ shares = 0

-----------------------------------------------------------------------------
(* Closes of 0 *)

\* C29: on a non-empty series whose closes may be 0 the simulation never
\* fails with bars left unread: with a supported strategy (or signals given
\* by the caller) every bar has a defined outcome, also a +1 on a bar whose
\* close is 0.
C29_ZeroCloseDefined ==
    (closes # <<>> /\ (strategy_type = "" \/ KnownStrategy(strategy_type))) =>
        ~(pc = "error" /\ idx < Len(closes))

-----------------------------------------------------------------------------
(* Persistence *)

TradeRowsOf(backtest_id) ==
    {k \in DOMAIN db_trades : db_trades[k].backtest_id = backtest_id}

\* C30: persistence is all-or-nothing: in every state of the store a
\* committed Backtest row with total_trades = n has exactly n committed
\* Trade rows, also when adding or committing the Trade rows fails.
C30_AllOrNothing ==
    \A b \in DOMAIN db_backtests :
        Cardinality(TradeRowsOf(b)) = db_backtests[b].total_trades

====
